---- MODULE Spec2Model ----
(***************************************************************************)
(* Model of DatahubRestSink (metadata-ingestion, datahub_rest.py): the     *)
(* sink that emits each record through the REST emitter, classifies the    *)
(* failure, applies the treat_errors_as_warnings policy, updates its       *)
(* SinkReport and invokes the caller's WriteCallback.                      *)
(*                                                                         *)
(* Python objects are modelled by identity: an OperationalError object is  *)
(* named by an element of OpErrs, and the dict it carries as e.info is the *)
(* heap cell heap[e].  A report entry built from e.info holds the          *)
(* reference e, not a copy, exactly as {"info": e.info} does.              *)
(***************************************************************************)
EXTENDS Integers, Sequences, FiniteSets, TLC

\* ------------------------------------------------------------------ bounds
\* write_record_async calls submitted in one run
MaxCalls == 2
MaxTraceLen == 4

\* ------------------------------------------------------------- data values
\* strings are sequences of characters
NL == "\n"

\* a value stored under "stackTrace": a str, or some value that is no str
StrVal(s) == [isStr |-> TRUE, chars |-> s]
NonStr == [isStr |-> FALSE, chars |-> <<>>]

\* the traces the transport reports: empty, one line, a trailing newline, two
\* lines, two lines and a trailing newline, three lines, leading empty lines
SampleTraces ==
    { <<>>, <<"a">>, <<"a", NL>>, <<"a", NL, "b">>, <<"a", NL, "b", NL>>,
      <<"a", NL, "b", NL, "c">>, <<NL, NL, "c">> }
TraceVals == {StrVal(s) : s \in SampleTraces} \cup {NonStr}
\* every trace of up to MaxTraceLen characters, for the trimming on its own
TraceChars == {"a", "b", NL}
AllTraces == UNION {[1..n -> TraceChars] : n \in 0..MaxTraceLen}

\* the record variants write_record_async accepts; only the wrapper has entityUrn
RecordKinds == {"MetadataChangeEvent", "MetadataChangeProposal",
                "MetadataChangeProposalWrapper", "UsageAggregation"}
Urns == {"urn:a"}
Records ==
    {[kind |-> k, entityUrn |-> "n/a"] :
        k \in RecordKinds \ {"MetadataChangeProposalWrapper"}}
    \cup {[kind |-> "MetadataChangeProposalWrapper", entityUrn |-> u] : u \in Urns}
NoRecord == [kind |-> "none", entityUrn |-> "n/a"]

\* OperationalError objects the emitter (or a callback) can raise, and the
\* exceptions of every other class
OpErrs == {"oe1", "oe2"}
OtherExcs == {"rt1"}
message(e) == IF e = "oe1" THEN "m1" ELSE "m2"

OpExc(e) == [cls |-> "OperationalError", id |-> e]
OtherExc(x) == [cls |-> "Exception", id |-> x]
NoExc == [cls |-> "none", id |-> "none"]
Exceptions == {OpExc(e) : e \in OpErrs} \cup {OtherExc(x) : x \in OtherExcs}
\* what a callback raises when it raises: one exception of each class
CallbackExceptions == {OpExc("oe1"), OtherExc("rt1")}

\* an info dict: a function from the keys it holds to their values.  The
\* transport fills it from the service's response; the sink adds "id".
InfoKeys == {"stackTrace", "status"}
MakeInfo(D, st) ==
    [k \in D |-> IF k = "stackTrace" THEN st ELSE "500"]
Infos == {MakeInfo(D, st) : D \in SUBSET InfoKeys, st \in TraceVals}
EmptyMap == MakeInfo({}, NonStr)
\* the info of the documented scenario: {"stackTrace": "a\nb\nc\nd"}
ScenarioTrace == <<"a", NL, "b", NL, "c", NL, "d">>
ScenarioInfo == MakeInfo({"stackTrace"}, StrVal(ScenarioTrace))
Put(info, k, v) == [x \in (DOMAIN info) \cup {k} |-> IF x = k THEN v ELSE info[x]]

\* ------------------------------------------------------ stack-trace trimming
\* s.split("\n")
RECURSIVE Split(_)
Split(s) ==
    IF \A i \in 1..Len(s) : s[i] # NL THEN <<s>>
    ELSE LET i == CHOOSE j \in 1..Len(s) :
                      s[j] = NL /\ \A k \in 1..(j - 1) : s[k] # NL
         IN  <<SubSeq(s, 1, i - 1)>> \o Split(SubSeq(s, i + 1, Len(s)))

\* "\n".join(parts)
RECURSIVE Join(_)
Join(parts) ==
    IF Len(parts) = 0 THEN <<>>
    ELSE IF Len(parts) = 1 THEN parts[1]
    ELSE parts[1] \o <<NL>> \o Join(Tail(parts))

\* parts[0:2]
Slice02(parts) == SubSeq(parts, 1, IF Len(parts) < 2 THEN Len(parts) ELSE 2)

\* (variant: the slice [-2:], the last two lines)
TrimSliceLast(v) ==
    IF v.isStr
    THEN LET p == Split(v.chars)
         IN  StrVal(Join(SubSeq(p, IF Len(p) < 2 THEN 1 ELSE Len(p) - 1, Len(p))))
    ELSE v
\* "\n".join(v.split("\n")[0:2]) inside try/except Exception: pass.  A value
\* that is no str has no such split: the attempt raises, the except clause
\* swallows it and the assignment never happens.
TrimStackTrace(v) ==
    IF v.isStr THEN StrVal(Join(Slice02(Split(v.chars)))) ELSE v

\* isinstance(record, MetadataChangeProposalWrapper)
IsWrapper(record) == record.kind = "MetadataChangeProposalWrapper"

\* (variant: the id assignment outside the isinstance test)
RedactAlwaysId(info, record) ==
    LET trimmed == IF "stackTrace" \in DOMAIN info
                   THEN [info EXCEPT !["stackTrace"] = TrimStackTrace(@)]
                   ELSE info
    IN  Put(trimmed, "id", record.entityUrn)
\* lines 87-100: what the warning branch leaves in e.info
Redact(info, record) ==
    LET trimmed == IF "stackTrace" \in DOMAIN info
                   THEN [info EXCEPT !["stackTrace"] = TrimStackTrace(@)]
                   ELSE info
    IN  IF IsWrapper(record) THEN Put(trimmed, "id", record.entityUrn) ELSE trimmed

\* (variant: the message decides too)
ClassifyByMessage(exc) ==
    IF exc.cls = "OperationalError" /\ message(exc.id) = "m1" THEN "operational"
    ELSE "unexpected"
\* which except clause takes an exception: a test of its class alone
Classify(exc) ==
    IF exc.cls = "OperationalError" THEN "operational" ELSE "unexpected"

\* ------------------------------------------------------------- SinkReport
\* records_written is a counter; warnings and failures are lists of entries
NewReport == [records_written |-> 0, warnings |-> <<>>, failures |-> <<>>]
report_record_written(rep) ==
    [rep EXCEPT !.records_written = @ + 1]
report_warning(rep, entry) == [rep EXCEPT !.warnings = Append(@, entry)]
report_failure(rep, entry) == [rep EXCEPT !.failures = Append(@, entry)]

\* the dicts the sink hands to the report; info is the reference e.info
ErrorEntry(e) == [key |-> "error", message |-> message(e), info |-> e]
WarningEntry(e) == [key |-> "warning", message |-> message(e), info |-> e]
RawEntry(exc) == [key |-> "e", e |-> exc]

\* -------------------------------------------------------------------- state
\* the driver thread, and a second thread for the runs that emit concurrently
Threads == {"main", "worker"}

VARIABLES
    sink,                       \* "none", "ready" (constructed) or "failed"
    treat_errors_as_warnings,   \* the sink's policy flag
    report,                     \* the sink's SinkReport
    heap,                       \* heap[e]: the dict that is e.info, as it is now
    orig,                       \* heap as the transport built it (never written)
    submitted,                  \* write_record_async calls made so far
    call,                       \* call[t]: thread t's write_record_async call
    connection,                 \* what test_connection() found: "untested", "ok", "failed"
    checks,                     \* calls of test_connection() so far
    closed,                     \* close() has been called
    latched,                    \* the flag of the last MetadataWorkUnit started, if any
    last,                       \* the last call of a method other than write_record_async
    script                      \* the emit outcomes still to come, when they are scripted

\* what the steps of write_record_async never touch
driver == <<connection, checks, closed, latched, last>>
vars == <<sink, treat_errors_as_warnings, report, heap, orig, submitted, call,
          connection, checks, closed, latched, last, script>>

\* A call's position and what it has done so far.  pc is the statement about
\* to run; the other fields record the call's arguments and its observable
\* trace: the callbacks invoked with their arguments, and the report and the
\* heap as they were when the call began.
IdleCall ==
    [pc |-> "idle", record |-> NoRecord, exc |-> NoExc,
     emitted |-> <<>>, emitOut |-> "none", emitExc |-> NoExc, flagRead |-> FALSE,
     nSuccess |-> 0, nFailure |-> 0,
     successArgs |-> [env |-> NoRecord, metadata |-> EmptyMap],
     failureArgs |-> [env |-> NoRecord, error |-> NoExc, info |-> EmptyMap,
                      infoRef |-> "none"],
     escaped |-> NoExc, report0 |-> NewReport, heap0 |-> [e \in OpErrs |-> EmptyMap],
     flag0 |-> FALSE]

Finished(c) == c.pc \in {"idle", "returned", "raised"}
NoCalls == [t \in Threads |-> IdleCall]

\* a MetadataWorkUnit carries treat_errors_as_warnings; other WorkUnits do not
WorkUnits ==
    {[metadata |-> TRUE, treat_errors_as_warnings |-> b] : b \in BOOLEAN}
    \cup {[metadata |-> FALSE, treat_errors_as_warnings |-> FALSE]}
NoWorkUnit == [metadata |-> FALSE, treat_errors_as_warnings |-> FALSE]

\* The record of a method call that is no write_record_async: the method, its
\* argument, and the sink as the call found it.
NoOp == [op |-> "none", workunit |-> NoWorkUnit, flag0 |-> FALSE,
         report0 |-> NewReport, closed0 |-> FALSE]
Op(name, workunit) ==
    [op |-> name, workunit |-> workunit, flag0 |-> treat_errors_as_warnings,
     report0 |-> report, closed0 |-> closed]

\* emit outcomes: NoExc stands for a normal return.  A free script lets every
\* emit end in any way; a scripted run fixes the outcomes, in any order.
FreeScript == [free |-> TRUE, left |-> {}]
CanEmit(outcome) == script.free \/ outcome \in script.left
Consume(outcome) ==
    IF script.free THEN script ELSE [script EXCEPT !.left = @ \ {outcome}]

Init ==
    /\ sink = "none"
    /\ treat_errors_as_warnings = FALSE
    /\ report = NewReport
    /\ heap \in {h \in [OpErrs -> Infos \cup {ScenarioInfo}] :
                     h["oe2"] = ScenarioInfo /\ h["oe1"] \in Infos}
    /\ orig = heap
    /\ submitted = 0
    /\ call = NoCalls
    /\ connection = "untested"
    /\ checks = 0
    /\ closed = FALSE
    /\ latched = "none"
    /\ last = NoOp
    /\ script = FreeScript

\* ----------------------------------------------------------- construction
\* __init__ (also reached through create): builds the report and the emitter
\* and runs test_connection(), whose exception leaves no sink behind.
\* (variant: the outcome of test_connection() is ignored)
ConstructUnchecked ==
    /\ sink = "none"
    /\ \E ok \in BOOLEAN :
         /\ connection' = IF ok THEN "ok" ELSE "failed"
         /\ sink' = "ready"
    /\ checks' = checks + 1
    /\ report' = NewReport
    /\ treat_errors_as_warnings' = FALSE
    /\ UNCHANGED <<heap, orig, submitted, call, closed, latched, last, script>>
\* (variant: a new sink downgrades operational errors)
ConstructDowngrading ==
    /\ sink = "none"
    /\ \E ok \in BOOLEAN :
         /\ connection' = IF ok THEN "ok" ELSE "failed"
         /\ sink' = IF ok THEN "ready" ELSE "failed"
    /\ checks' = checks + 1
    /\ report' = NewReport
    /\ treat_errors_as_warnings' = TRUE
    /\ UNCHANGED <<heap, orig, submitted, call, closed, latched, last, script>>
Construct ==
    /\ sink = "none"
    /\ \E ok \in BOOLEAN :
         /\ connection' = IF ok THEN "ok" ELSE "failed"
         /\ sink' = IF ok THEN "ready" ELSE "failed"
    /\ checks' = checks + 1
    /\ report' = NewReport
    /\ treat_errors_as_warnings' = FALSE
    /\ UNCHANGED <<heap, orig, submitted, call, closed, latched, last, script>>

\* --------------------------------------------------- work-unit notifications
Quiet == \A t \in Threads : Finished(call[t])

\* The driver makes these calls between write_record_async calls.  Each is
\* recorded in last, and the record of the calls that ended is dropped.
FlagName(b) == IF b THEN "true" ELSE "false"
Latch(workunit) ==
    IF workunit.metadata THEN FlagName(workunit.treat_errors_as_warnings)
    ELSE latched

\* (variant: the isinstance test left out)
handle_work_unit_start_any(workunit) ==
    /\ sink = "ready"
    /\ Quiet
    /\ treat_errors_as_warnings' = workunit.treat_errors_as_warnings
    /\ latched' = Latch(workunit)
    /\ last' = Op("handle_work_unit_start", workunit)
    /\ call' = NoCalls
    /\ UNCHANGED <<sink, report, heap, orig, submitted, connection, checks, closed, script>>
\* (variant: the flag is not assigned)
handle_work_unit_start_unlatched(workunit) ==
    /\ sink = "ready"
    /\ Quiet
    /\ latched' = Latch(workunit)
    /\ last' = Op("handle_work_unit_start", workunit)
    /\ call' = NoCalls
    /\ UNCHANGED <<sink, treat_errors_as_warnings, report, heap, orig, submitted,
                   connection, checks, closed, script>>
handle_work_unit_start(workunit) ==
    /\ sink = "ready"
    /\ Quiet
    /\ treat_errors_as_warnings' =
           IF workunit.metadata THEN workunit.treat_errors_as_warnings
           ELSE treat_errors_as_warnings
    /\ latched' = Latch(workunit)
    /\ last' = Op("handle_work_unit_start", workunit)
    /\ call' = NoCalls
    /\ UNCHANGED <<sink, report, heap, orig, submitted, connection, checks, closed, script>>

\* (variant: the end of a work unit puts the flag back to its default)
handle_work_unit_end_resetting(workunit) ==
    /\ sink = "ready"
    /\ Quiet
    /\ treat_errors_as_warnings' = FALSE
    /\ last' = Op("handle_work_unit_end", workunit)
    /\ call' = NoCalls
    /\ UNCHANGED <<sink, report, heap, orig, submitted, connection, checks, closed,
                   latched, script>>
handle_work_unit_end(workunit) ==
    /\ sink = "ready"
    /\ Quiet
    /\ last' = Op("handle_work_unit_end", workunit)
    /\ call' = NoCalls
    /\ UNCHANGED <<sink, treat_errors_as_warnings, report, heap, orig, submitted,
                   connection, checks, closed, latched, script>>

\* (variant: every call hands out a new report)
get_report_fresh ==
    /\ sink = "ready"
    /\ Quiet
    /\ report' = NewReport
    /\ last' = Op("get_report", NoWorkUnit)
    /\ call' = NoCalls
    /\ UNCHANGED <<sink, treat_errors_as_warnings, heap, orig, submitted,
                   connection, checks, closed, latched, script>>
\* lines 107-108: return self.report
get_report ==
    /\ sink = "ready"
    /\ Quiet
    /\ last' = Op("get_report", NoWorkUnit)
    /\ call' = NoCalls
    /\ UNCHANGED <<sink, treat_errors_as_warnings, report, heap, orig, submitted,
                   connection, checks, closed, latched, script>>

\* (variant: close starts a fresh report)
close_clearing ==
    /\ sink = "ready"
    /\ Quiet
    /\ closed' = TRUE
    /\ report' = NewReport
    /\ last' = Op("close", NoWorkUnit)
    /\ call' = NoCalls
    /\ UNCHANGED <<sink, treat_errors_as_warnings, heap, orig, submitted,
                   connection, checks, latched, script>>
\* lines 110-111: the body is pass
close ==
    /\ sink = "ready"
    /\ Quiet
    /\ closed' = TRUE
    /\ last' = Op("close", NoWorkUnit)
    /\ call' = NoCalls
    /\ UNCHANGED <<sink, treat_errors_as_warnings, report, heap, orig, submitted,
                   connection, checks, latched, script>>

\* The same two methods called from another thread while a
\* write_record_async call is in progress.  At most one such
\* handle_work_unit_start per write_record_async call is followed.
handle_work_unit_start_in_flight(workunit) ==
    /\ sink = "ready"
    /\ ~Quiet
    /\ last = NoOp
    /\ treat_errors_as_warnings' =
           IF workunit.metadata THEN workunit.treat_errors_as_warnings
           ELSE treat_errors_as_warnings
    /\ latched' = Latch(workunit)
    /\ last' = Op("handle_work_unit_start", workunit)
    /\ UNCHANGED <<sink, report, heap, orig, submitted, call, connection, checks,
                   closed, script>>
close_in_flight ==
    /\ sink = "ready"
    /\ ~Quiet
    /\ ~closed
    /\ closed' = TRUE
    /\ UNCHANGED <<sink, treat_errors_as_warnings, report, heap, orig, submitted,
                   call, connection, checks, latched, last, script>>

\* -------------------------------------------------------- write_record_async
\* The except clause that takes an exception raised inside the try body
\* (lines 78-80): OperationalError first, then Exception.
Handler(exc) ==
    IF Classify(exc) = "operational" THEN "handle_operational"
    ELSE "handle_unexpected"

\* the call begins: line 75
NewCall(record) ==
    [IdleCall EXCEPT !.pc = "emit", !.record = record,
                     !.report0 = report, !.heap0 = heap,
                     !.flag0 = treat_errors_as_warnings]
CanSubmit == IF script.free THEN submitted < MaxCalls ELSE script.left # {}

Submit(t, record) ==
    /\ sink = "ready"
    /\ Quiet
    /\ CanSubmit
    /\ submitted' = submitted + 1
    /\ call' = [call EXCEPT ![t] = NewCall(record)]
    /\ last' = NoOp
    /\ UNCHANGED <<sink, treat_errors_as_warnings, report, heap, orig,
                   connection, checks, closed, latched, script>>

\* the same entry while other threads' calls are in progress
SubmitConcurrently(t, record) ==
    /\ sink = "ready"
    /\ Finished(call[t])
    /\ CanSubmit
    /\ submitted' = submitted + 1
    /\ call' = [call EXCEPT ![t] = NewCall(record)]
    /\ last' = NoOp
    /\ UNCHANGED <<sink, treat_errors_as_warnings, report, heap, orig,
                   connection, checks, closed, latched, script>>

\* (variant: the connection is tested before each emit)
EmitReturnsRechecking(t) ==
    /\ call[t].pc = "emit"
    /\ CanEmit(NoExc)
    /\ script' = Consume(NoExc)
    /\ checks' = checks + 1
    /\ call' = [call EXCEPT ![t].pc = "report_written", ![t].emitOut = "returned",
                            ![t].emitted = Append(@, call[t].record)]
    /\ UNCHANGED <<sink, treat_errors_as_warnings, report, heap, orig, submitted,
                   connection, closed, latched, last>>
\* line 78: self.emitter.emit(record) returns
EmitReturns(t) ==
    /\ call[t].pc = "emit"
    /\ CanEmit(NoExc)
    /\ script' = Consume(NoExc)
    /\ call' = [call EXCEPT ![t].pc = "report_written", ![t].emitOut = "returned",
                            ![t].emitted = Append(@, call[t].record)]
    /\ UNCHANGED <<sink, treat_errors_as_warnings, report, heap, orig, submitted, driver>>

\* (variant: a failed emit is tried again)
EmitRaisesRetrying(t, exc) ==
    /\ call[t].pc = "emit"
    /\ CanEmit(exc)
    /\ script' = Consume(exc)
    /\ call' = [call EXCEPT ![t].pc = IF Len(call[t].emitted) = 0 THEN "emit"
                                      ELSE Handler(exc),
                            ![t].exc = IF Len(call[t].emitted) = 0 THEN NoExc ELSE exc,
                            ![t].emitOut = "raised", ![t].emitExc = exc,
                            ![t].emitted = Append(@, call[t].record)]
    /\ UNCHANGED <<sink, treat_errors_as_warnings, report, heap, orig, submitted, driver>>
\* line 78: self.emitter.emit(record) raises
EmitRaises(t, exc) ==
    /\ call[t].pc = "emit"
    /\ CanEmit(exc)
    /\ script' = Consume(exc)
    /\ call' = [call EXCEPT ![t].pc = Handler(exc), ![t].exc = exc,
                            ![t].emitOut = "raised", ![t].emitExc = exc,
                            ![t].emitted = Append(@, call[t].record)]
    /\ UNCHANGED <<sink, treat_errors_as_warnings, report, heap, orig, submitted, driver>>

\* (variant: the counter is written from the value the call saw when it began)
ReportWrittenStale(t) ==
    /\ call[t].pc = "report_written"
    /\ report' = [report EXCEPT !.records_written = call[t].report0.records_written + 1]
    /\ call' = [call EXCEPT ![t].pc = "on_success"]
    /\ UNCHANGED <<sink, treat_errors_as_warnings, heap, orig, submitted, driver, script>>
\* (variant: the report update left out)
ReportWrittenSkipped(t) ==
    /\ call[t].pc = "report_written"
    /\ call' = [call EXCEPT ![t].pc = "on_success"]
    /\ UNCHANGED <<sink, treat_errors_as_warnings, report, heap, orig, submitted, driver, script>>
\* line 79: self.report.report_record_written(record_envelope)
ReportWritten(t) ==
    /\ call[t].pc = "report_written"
    /\ report' = report_record_written(report)
    /\ call' = [call EXCEPT ![t].pc = "on_success"]
    /\ UNCHANGED <<sink, treat_errors_as_warnings, heap, orig, submitted, driver, script>>

\* line 80: write_callback.on_success(record_envelope, {}) is invoked and
\* returns, which ends the call
OnSuccessReturns(t) ==
    /\ call[t].pc = "on_success"
    /\ call' = [call EXCEPT
                   ![t].pc = "returned",
                   ![t].nSuccess = @ + 1,
                   ![t].successArgs = [env |-> call[t].record, metadata |-> EmptyMap]]
    /\ UNCHANGED <<sink, treat_errors_as_warnings, report, heap, orig, submitted, driver, script>>

\* line 80: on_success is invoked and raises; the call is inside the try
\* body, so the except clauses of lines 81 and 103 apply to it
OnSuccessRaises(t, exc) ==
    /\ call[t].pc = "on_success"
    /\ call' = [call EXCEPT
                   ![t].pc = Handler(exc),
                   ![t].exc = exc,
                   ![t].nSuccess = @ + 1,
                   ![t].successArgs = [env |-> call[t].record, metadata |-> EmptyMap]]
    /\ UNCHANGED <<sink, treat_errors_as_warnings, report, heap, orig, submitted, driver, script>>

\* (variant: the flag is not consulted)
HandleOperationalIgnoringFlag(t) ==
    LET e == call[t].exc.id IN
    /\ call[t].pc = "handle_operational"
    /\ report' = report_failure(report, ErrorEntry(e))
    /\ call' = [call EXCEPT ![t].pc = "on_failure_operational",
                            ![t].flagRead = treat_errors_as_warnings]
    /\ UNCHANGED <<sink, treat_errors_as_warnings, heap, orig, submitted, driver, script>>
\* (variant: the redaction runs before the flag is tested)
HandleOperationalTrimsBoth(t) ==
    LET e == call[t].exc.id IN
    /\ call[t].pc = "handle_operational"
    /\ heap' = [heap EXCEPT ![e] = Redact(@, call[t].record)]
    /\ report' = IF ~treat_errors_as_warnings
                 THEN report_failure(report, ErrorEntry(e))
                 ELSE report_warning(report, WarningEntry(e))
    /\ call' = [call EXCEPT ![t].pc = "on_failure_operational",
                            ![t].flagRead = treat_errors_as_warnings]
    /\ UNCHANGED <<sink, treat_errors_as_warnings, orig, submitted, driver, script>>
\* (variant: the flag is the one the call found when it began)
HandleOperationalPinned(t) ==
    LET e == call[t].exc.id IN
    /\ call[t].pc = "handle_operational"
    /\ IF ~call[t].flag0
       THEN /\ report' = report_failure(report, ErrorEntry(e))
            /\ heap' = heap
       ELSE /\ heap' = [heap EXCEPT ![e] = Redact(@, call[t].record)]
            /\ report' = report_warning(report, WarningEntry(e))
    /\ call' = [call EXCEPT ![t].pc = "on_failure_operational",
                            ![t].flagRead = treat_errors_as_warnings]
    /\ UNCHANGED <<sink, treat_errors_as_warnings, orig, submitted, driver, script>>
\* (variant: an operational error ends the sink)
HandleOperationalAborting(t) ==
    LET e == call[t].exc.id IN
    /\ call[t].pc = "handle_operational"
    /\ IF ~treat_errors_as_warnings
       THEN /\ report' = report_failure(report, ErrorEntry(e))
            /\ heap' = heap
       ELSE /\ heap' = [heap EXCEPT ![e] = Redact(@, call[t].record)]
            /\ report' = report_warning(report, WarningEntry(e))
    /\ sink' = "failed"
    /\ call' = [call EXCEPT ![t].pc = "on_failure_operational",
                            ![t].flagRead = treat_errors_as_warnings]
    /\ UNCHANGED <<treat_errors_as_warnings, orig, submitted, driver, script>>
\* (variant: the trimming is not wrapped in try/except, so the error of
\* calling split on a value that is no str leaves the except clause)
HandleOperationalUnguardedTrim(t) ==
    LET e == call[t].exc.id IN
    /\ call[t].pc = "handle_operational"
    /\ IF ~treat_errors_as_warnings
       THEN /\ report' = report_failure(report, ErrorEntry(e))
            /\ heap' = heap
            /\ call' = [call EXCEPT ![t].pc = "on_failure_operational",
                                    ![t].flagRead = treat_errors_as_warnings]
       ELSE IF "stackTrace" \in DOMAIN heap[e] /\ ~heap[e]["stackTrace"].isStr
       THEN /\ UNCHANGED <<report, heap>>
            /\ call' = [call EXCEPT ![t].pc = "raised",
                                    ![t].escaped = OtherExc("AttributeError"),
                                    ![t].flagRead = treat_errors_as_warnings]
       ELSE /\ heap' = [heap EXCEPT ![e] = Redact(@, call[t].record)]
            /\ report' = report_warning(report, WarningEntry(e))
            /\ call' = [call EXCEPT ![t].pc = "on_failure_operational",
                                    ![t].flagRead = treat_errors_as_warnings]
    /\ UNCHANGED <<sink, treat_errors_as_warnings, orig, submitted, driver, script>>
\* lines 83-101: the body of except OperationalError up to the report update.
\* The warning branch assigns into e.info itself.
HandleOperational(t) ==
    LET e == call[t].exc.id IN
    /\ call[t].pc = "handle_operational"
    /\ IF ~treat_errors_as_warnings
       THEN /\ report' = report_failure(report, ErrorEntry(e))
            /\ heap' = heap
       ELSE /\ heap' = [heap EXCEPT ![e] = Redact(@, call[t].record)]
            /\ report' = report_warning(report, WarningEntry(e))
    /\ call' = [call EXCEPT ![t].pc = "on_failure_operational",
                            ![t].flagRead = treat_errors_as_warnings]
    /\ UNCHANGED <<sink, treat_errors_as_warnings, orig, submitted, driver, script>>

\* (variant: on_failure gets a copy of the info as it was raised)
OnFailureOperationalRawInfo(t, raised) ==
    LET e == call[t].exc.id IN
    /\ call[t].pc = "on_failure_operational"
    /\ call' = [call EXCEPT
                   ![t].pc = IF raised = NoExc THEN "returned" ELSE "raised",
                   ![t].escaped = raised,
                   ![t].nFailure = @ + 1,
                   ![t].failureArgs = [env |-> call[t].record, error |-> call[t].exc,
                                       info |-> call[t].heap0[e], infoRef |-> "copy"]]
    /\ UNCHANGED <<sink, treat_errors_as_warnings, report, heap, orig, submitted, driver, script>>
\* line 102: write_callback.on_failure(record_envelope, e, e.info).  An
\* exception it raises is raised inside an except clause: no clause of this
\* try statement catches it and it leaves write_record_async.
OnFailureOperational(t, raised) ==
    LET e == call[t].exc.id IN
    /\ call[t].pc = "on_failure_operational"
    /\ call' = [call EXCEPT
                   ![t].pc = IF raised = NoExc THEN "returned" ELSE "raised",
                   ![t].escaped = raised,
                   ![t].nFailure = @ + 1,
                   ![t].failureArgs = [env |-> call[t].record, error |-> call[t].exc,
                                       info |-> heap[e], infoRef |-> e]]
    /\ UNCHANGED <<sink, treat_errors_as_warnings, report, heap, orig, submitted, driver, script>>

\* (variant: the exception is recorded and raised again, with no callback)
HandleUnexpectedNoCallback(t) ==
    /\ call[t].pc = "handle_unexpected"
    /\ report' = report_failure(report, RawEntry(call[t].exc))
    /\ call' = [call EXCEPT ![t].pc = "raised", ![t].escaped = call[t].exc]
    /\ UNCHANGED <<sink, treat_errors_as_warnings, heap, orig, submitted, driver, script>>
\* (variant: the flag downgrades this failure too)
HandleUnexpectedAsWarning(t) ==
    /\ call[t].pc = "handle_unexpected"
    /\ report' = IF treat_errors_as_warnings
                 THEN report_warning(report, RawEntry(call[t].exc))
                 ELSE report_failure(report, RawEntry(call[t].exc))
    /\ call' = [call EXCEPT ![t].pc = "on_failure_unexpected"]
    /\ UNCHANGED <<sink, treat_errors_as_warnings, heap, orig, submitted, driver, script>>
\* line 104: self.report.report_failure({"e": e})
HandleUnexpected(t) ==
    /\ call[t].pc = "handle_unexpected"
    /\ report' = report_failure(report, RawEntry(call[t].exc))
    /\ call' = [call EXCEPT ![t].pc = "on_failure_unexpected"]
    /\ UNCHANGED <<sink, treat_errors_as_warnings, heap, orig, submitted, driver, script>>

\* line 105: write_callback.on_failure(record_envelope, e, {})
OnFailureUnexpected(t, raised) ==
    /\ call[t].pc = "on_failure_unexpected"
    /\ call' = [call EXCEPT
                   ![t].pc = IF raised = NoExc THEN "returned" ELSE "raised",
                   ![t].escaped = raised,
                   ![t].nFailure = @ + 1,
                   ![t].failureArgs = [env |-> call[t].record, error |-> call[t].exc,
                                       info |-> EmptyMap, infoRef |-> "none"]]
    /\ UNCHANGED <<sink, treat_errors_as_warnings, report, heap, orig, submitted, driver, script>>

\* ------------------------------------------------------------ specification
\* One driver thread: the pipeline makes every sink call from its run loop.
Next ==
    \/ Construct
    \/ \E w \in WorkUnits : handle_work_unit_start(w)
    \/ \E w \in WorkUnits : handle_work_unit_end(w)
    \/ get_report
    \/ \E r \in Records : Submit("main", r)
    \/ EmitReturns("main")
    \/ \E x \in Exceptions : EmitRaises("main", x)
    \/ ReportWritten("main")
    \/ OnSuccessReturns("main")
    \/ \E x \in CallbackExceptions : OnSuccessRaises("main", x)
    \/ HandleOperational("main")
    \/ \E x \in CallbackExceptions \cup {NoExc} : OnFailureOperational("main", x)
    \/ HandleUnexpected("main")
    \/ \E x \in CallbackExceptions \cup {NoExc} : OnFailureUnexpected("main", x)

Spec == Init /\ [][Next]_vars

\* The same runs with close() called at any point between two calls, for one
\* error info: the three-line trace with a status field.
InitLife ==
    /\ Init
    /\ heap["oe1"] = MakeInfo({"stackTrace", "status"}, StrVal(<<"a", NL, "b", NL, "c">>))
NextLife == Next \/ close
SpecLife == InitLife /\ [][NextLife]_vars

\* The three-record scenario: the flag latched true, then three records whose
\* emits end in the three ways, once each, in any order.
ScenarioOutcomes == {NoExc, OpExc("oe2"), OtherExc("rt1")}
ScenarioWorkUnit == [metadata |-> TRUE, treat_errors_as_warnings |-> TRUE]
InitScenario ==
    /\ sink = "none"
    /\ treat_errors_as_warnings = FALSE
    /\ report = NewReport
    /\ heap = [e \in OpErrs |-> ScenarioInfo]
    /\ orig = heap
    /\ submitted = 0
    /\ call = NoCalls
    /\ connection = "untested"
    /\ checks = 0
    /\ closed = FALSE
    /\ latched = "none"
    /\ last = NoOp
    /\ script = [free |-> FALSE, left |-> ScenarioOutcomes]
SubmitUnderFlag(t, record) ==
    /\ latched = "true"
    /\ Submit(t, record)
NextScenario ==
    \/ Construct
    \/ handle_work_unit_start(ScenarioWorkUnit)
    \/ \E w \in WorkUnits : handle_work_unit_end(w)
    \/ get_report
    \/ \E r \in Records : SubmitUnderFlag("main", r)
    \/ EmitReturns("main")
    \/ \E x \in Exceptions : EmitRaises("main", x)
    \/ ReportWritten("main")
    \/ OnSuccessReturns("main")
    \/ \E x \in CallbackExceptions : OnSuccessRaises("main", x)
    \/ HandleOperational("main")
    \/ \E x \in CallbackExceptions \cup {NoExc} : OnFailureOperational("main", x)
    \/ HandleUnexpected("main")
    \/ \E x \in CallbackExceptions \cup {NoExc} : OnFailureUnexpected("main", x)
SpecScenario == InitScenario /\ [][NextScenario]_vars

\* Concurrent writers: after the flag is set, each thread makes one call and
\* the statements of the calls interleave.
SubmitOnce(t, record) ==
    /\ call[t].pc = "idle"
    /\ SubmitConcurrently(t, record)
StartBeforeWrites(workunit) ==
    /\ submitted = 0
    /\ handle_work_unit_start(workunit)
NextConc ==
    \/ Construct
    \/ \E w \in WorkUnits : StartBeforeWrites(w)
    \/ \E t \in Threads :
         \/ \E r \in Records : SubmitOnce(t, r)
         \/ EmitReturns(t)
         \/ \E x \in Exceptions : EmitRaises(t, x)
         \/ ReportWritten(t)
         \/ OnSuccessReturns(t)
         \/ \E x \in CallbackExceptions : OnSuccessRaises(t, x)
         \/ HandleOperational(t)
         \/ \E x \in CallbackExceptions \cup {NoExc} : OnFailureOperational(t, x)
         \/ HandleUnexpected(t)
         \/ \E x \in CallbackExceptions \cup {NoExc} : OnFailureUnexpected(t, x)
SpecConc == InitLife /\ [][NextConc]_vars

\* handle_work_unit_start and close called while a write_record_async call
\* is in progress, as well as between two calls.
NextRace ==
    \/ NextLife
    \/ \E w \in WorkUnits : handle_work_unit_start_in_flight(w)
    \/ close_in_flight
SpecRace == InitLife /\ [][NextRace]_vars

\* Runs in which no emit raises.
NextSuccess ==
    \/ Construct
    \/ \E w \in WorkUnits : handle_work_unit_start(w)
    \/ \E w \in WorkUnits : handle_work_unit_end(w)
    \/ get_report
    \/ \E r \in Records : Submit("main", r)
    \/ EmitReturns("main")
    \/ ReportWritten("main")
    \/ OnSuccessReturns("main")
    \/ \E x \in CallbackExceptions : OnSuccessRaises("main", x)
    \/ HandleOperational("main")
    \/ \E x \in CallbackExceptions \cup {NoExc} : OnFailureOperational("main", x)
    \/ HandleUnexpected("main")
    \/ \E x \in CallbackExceptions \cup {NoExc} : OnFailureUnexpected("main", x)
SpecSuccess == Init /\ [][NextSuccess]_vars

\* A call that has begun goes on: the thread that runs write_record_async is
\* scheduled, and a callback that was invoked returns or raises.
CallStep(t) ==
    \/ ReportWritten(t)
    \/ OnSuccessReturns(t)
    \/ \E x \in CallbackExceptions : OnSuccessRaises(t, x)
    \/ HandleOperational(t)
    \/ \E x \in CallbackExceptions \cup {NoExc} : OnFailureOperational(t, x)
    \/ HandleUnexpected(t)
    \/ \E x \in CallbackExceptions \cup {NoExc} : OnFailureUnexpected(t, x)
SpecFair == InitLife /\ [][Next]_vars /\ WF_vars(CallStep("main"))

\* The trimming on its own: one OperationalError with any short trace, raised
\* for every record under the flag true, so that the second call trims what
\* the first has trimmed.
InitTrim ==
    /\ sink = "none"
    /\ treat_errors_as_warnings = FALSE
    /\ report = NewReport
    /\ heap \in {[e \in OpErrs |-> IF e = "oe1" THEN MakeInfo({"stackTrace"}, v)
                                  ELSE ScenarioInfo] :
                     v \in {StrVal(s) : s \in AllTraces} \cup {NonStr}}
    /\ orig = heap
    /\ submitted = 0
    /\ call = NoCalls
    /\ connection = "untested"
    /\ checks = 0
    /\ closed = FALSE
    /\ latched = "none"
    /\ last = NoOp
    /\ script = FreeScript
NextTrim ==
    \/ Construct
    \/ handle_work_unit_start(ScenarioWorkUnit)
    \/ \E r \in Records : SubmitUnderFlag("main", r)
    \/ EmitRaises("main", OpExc("oe1"))
    \/ HandleOperational("main")
    \/ OnFailureOperational("main", NoExc)
SpecTrim == InitTrim /\ [][NextTrim]_vars

\* ============================================================== properties
\* the driver thread's call, and what a report counts
Cur == call["main"]
Warned(rep) == Len(rep.warnings)
Failed(rep) == Len(rep.failures)
Counted(rep) == rep.records_written + Warned(rep) + Failed(rep)
Ended(c) == c.pc \in {"returned", "raised"}
EmitRaisedOperational(c) ==
    c.emitOut = "raised" /\ c.emitExc.cls = "OperationalError"
EmitRaisedOther(c) ==
    c.emitOut = "raised" /\ c.emitExc.cls # "OperationalError"
\* the except clause of the call's exception has made its report update
Handled(c) == c.pc \in {"on_failure_operational", "on_failure_unexpected"} \/ Ended(c)
\* the call recorded its operational error as a warning
OnWarningPath(c) ==
    /\ c.pc = "on_failure_operational" \/ Ended(c)
    /\ c.exc.cls = "OperationalError"
    /\ c.flagRead

\* C1: every write_record_async call that has ended has invoked exactly one
\* callback, on_success or on_failure, whatever emit and the callback did.
C1_ExactlyOneCallback ==
    \A t \in Threads :
        Ended(call[t]) => call[t].nSuccess + call[t].nFailure = 1

\* C2: a callback is invoked only after the report update for its record:
\* once on_success has been invoked records_written has grown, and once
\* on_failure has been invoked a failure or a warning entry has been added;
\* there are never more callbacks than report updates in a call.
C2_ReportBeforeCallback ==
    \A t \in Threads :
        LET c == call[t] IN
        /\ c.nSuccess >= 1 => report.records_written > c.report0.records_written
        /\ c.nFailure >= 1 =>
               Warned(report) + Failed(report) > Warned(c.report0) + Failed(c.report0)
        /\ c.nSuccess + c.nFailure <= Counted(report) - Counted(c.report0)
C2_Witness ==
    /\ Cur.pc = "returned" /\ Cur.nFailure = 1 /\ Cur.nSuccess = 0
    /\ Warned(report) = Warned(Cur.report0) + 1

\* C3: no exception leaves write_record_async: no call ends by raising.
C3_NoExceptionEscapes ==
    \A t \in Threads : call[t].pc # "raised"

\* C4: whenever no call is in progress, written + warned + failed equals the
\* number of records submitted.
C4_CountsEqualSubmitted ==
    Quiet => Counted(report) = submitted

\* C5: emit raised an OperationalError e and the flag is false: the report
\* gained exactly the failure entry {error: e.message, info: e.info}, no
\* warning and no written record; e.info is as it was raised (untrimmed, no
\* id added); on_success was not invoked and on_failure got e and e.info.
C5_OperationalFailure ==
    \A t \in Threads :
        LET c == call[t]
            e == c.emitExc.id
        IN  (EmitRaisedOperational(c) /\ ~c.flag0 /\ Handled(c)) =>
                /\ report.failures =
                       Append(c.report0.failures,
                              [key |-> "error", message |-> message(e), info |-> e])
                /\ report.warnings = c.report0.warnings
                /\ report.records_written = c.report0.records_written
                /\ heap[e] = c.heap0[e]
                /\ c.nSuccess = 0
                /\ Ended(c) =>
                       /\ c.nFailure = 1
                       /\ c.failureArgs.env = c.record
                       /\ c.failureArgs.error = c.emitExc
                       /\ c.failureArgs.infoRef = e
                       /\ c.failureArgs.info = c.heap0[e]
C5_Witness ==
    /\ Cur.pc = "returned" /\ EmitRaisedOperational(Cur) /\ ~Cur.flag0
    /\ Cur.emitExc.id = "oe2" /\ IsWrapper(Cur.record)
    /\ Failed(report) = 2

\* C6: emit raised an OperationalError e and the flag is true: the report
\* gained exactly the warning entry {warning: e.message, info: e.info}, no
\* failure and no written record; the callback is on_failure, never
\* on_success, with e and with the info the warning entry holds.
C6_OperationalWarning ==
    \A t \in Threads :
        LET c == call[t]
            e == c.emitExc.id
        IN  (EmitRaisedOperational(c) /\ c.flag0 /\ Handled(c)) =>
                /\ report.warnings =
                       Append(c.report0.warnings,
                              [key |-> "warning", message |-> message(e), info |-> e])
                /\ report.failures = c.report0.failures
                /\ report.records_written = c.report0.records_written
                /\ c.nSuccess = 0
                /\ Ended(c) =>
                       /\ c.nFailure = 1
                       /\ c.failureArgs.env = c.record
                       /\ c.failureArgs.error = c.emitExc
                       /\ c.failureArgs.infoRef = e
                       /\ c.failureArgs.info = heap[e]
C6_Witness ==
    /\ Cur.pc = "returned" /\ EmitRaisedOperational(Cur) /\ Cur.flag0
    /\ Cur.emitExc.id = "oe2"
    /\ heap["oe2"] # Cur.heap0["oe2"]
    /\ Warned(report) = 1 /\ Failed(report) = 1

\* the first two newline-separated lines of s joined by a newline: s itself
\* when it holds fewer than two newlines, else s up to its second newline
NewlinesBefore(s, i) == Cardinality({j \in 1..(i - 1) : s[j] = NL})
FirstTwoLines(s) ==
    IF NewlinesBefore(s, Len(s) + 1) < 2 THEN s
    ELSE LET i == CHOOSE j \in 1..Len(s) : s[j] = NL /\ NewlinesBefore(s, j) = 1
         IN  SubSeq(s, 1, i - 1)

\* C7: on the warning path, a stackTrace string of the raised info is stored
\* as its first two lines joined by a newline (unchanged when it has at most
\* two lines), and every other field of the info, "id" apart, is as raised.
C7_TraceTrimmed ==
    \A t \in Threads :
        LET c == call[t]
            e == c.exc.id
            raised == c.heap0[e]
        IN  OnWarningPath(c) =>
                /\ ("stackTrace" \in DOMAIN raised /\ raised["stackTrace"].isStr) =>
                       /\ "stackTrace" \in DOMAIN heap[e]
                       /\ heap[e]["stackTrace"] =
                              StrVal(FirstTwoLines(raised["stackTrace"].chars))
                /\ (DOMAIN heap[e]) \ {"id"} = (DOMAIN raised) \ {"id"}
                /\ \A k \in (DOMAIN raised) \ {"stackTrace", "id"} :
                       heap[e][k] = raised[k]
C7_Witness ==
    /\ Cur.pc = "returned" /\ OnWarningPath(Cur) /\ Cur.exc.id = "oe1"
    /\ Cur.heap0["oe1"] = MakeInfo({"stackTrace", "status"},
                                   StrVal(<<"a", NL, "b", NL, "c">>))
    /\ heap["oe1"]["stackTrace"] = StrVal(<<"a", NL, "b">>)
    /\ report.warnings[Warned(report)].info = "oe1"

\* C8: on the warning path the stored info holds the record's entityUrn under
\* "id" when the record is a MetadataChangeProposalWrapper; for every other
\* record variant no "id" is added: the field is there only if it was raised
\* with the error, with the value it had.
C8_IdOnlyForWrapper ==
    \A t \in Threads :
        LET c == call[t]
            e == c.exc.id
            raised == c.heap0[e]
        IN  OnWarningPath(c) =>
                IF c.record.kind = "MetadataChangeProposalWrapper"
                THEN "id" \in DOMAIN heap[e] /\ heap[e]["id"] = c.record.entityUrn
                ELSE /\ "id" \in DOMAIN heap[e] <=> "id" \in DOMAIN raised
                     /\ "id" \in DOMAIN raised => heap[e]["id"] = raised["id"]
C8_Witness ==
    /\ Cur.pc = "returned" /\ OnWarningPath(Cur)
    /\ Cur.record.kind = "MetadataChangeProposalWrapper"
    /\ "id" \notin DOMAIN Cur.heap0[Cur.exc.id]
    /\ heap[Cur.exc.id]["id"] = "urn:a"

\* C9: emit raised an exception that is no OperationalError: under either
\* flag value the report gained exactly the failure entry {e: error}, no
\* warning; no info dict was touched; on_failure got the envelope, the error
\* and an empty info map.
C9_UnexpectedFailure ==
    \A t \in Threads :
        LET c == call[t] IN
        (EmitRaisedOther(c) /\ Handled(c)) =>
            /\ report.failures =
                   Append(c.report0.failures, [key |-> "e", e |-> c.emitExc])
            /\ report.warnings = c.report0.warnings
            /\ report.records_written = c.report0.records_written
            /\ heap = c.heap0
            /\ c.nSuccess = 0
            /\ Ended(c) =>
                   /\ c.nFailure = 1
                   /\ c.failureArgs =
                          [env |-> c.record, error |-> c.emitExc,
                           info |-> EmptyMap, infoRef |-> "none"]
C9_Witness ==
    /\ Cur.pc = "returned" /\ EmitRaisedOther(Cur)
    /\ Cur.flag0 /\ treat_errors_as_warnings
    /\ Failed(report) = 1 /\ Warned(report) = 1

\* C10: emit returned: when the call has ended records_written has grown by
\* exactly 1, no warning and no failure entry was added, and on_success was
\* invoked with the envelope and an empty metadata map.
C10_SuccessWritten ==
    \A t \in Threads :
        LET c == call[t] IN
        (c.emitOut = "returned" /\ Ended(c)) =>
            /\ report.records_written = c.report0.records_written + 1
            /\ report.warnings = c.report0.warnings
            /\ report.failures = c.report0.failures
            /\ c.nSuccess = 1
            /\ c.successArgs = [env |-> c.record, metadata |-> EmptyMap]

\* C11: downgrading to a warning does not change the raised error: once a
\* call whose emit raised an OperationalError e has ended, e.info is what it
\* was when the error was raised.
C11_ErrorNotMutated ==
    \A t \in Threads :
        LET c == call[t] IN
        (Ended(c) /\ EmitRaisedOperational(c)) =>
            heap[c.emitExc.id] = c.heap0[c.emitExc.id]

\* C12: on the warning path a stackTrace that is no str is left as it was
\* raised; the record is still recorded as a warning, on_failure is still
\* invoked, and the call ends by an exception only if on_failure raised it.
C12_TrimFailureSwallowed ==
    \A t \in Threads :
        LET c == call[t]
            e == c.exc.id
            raised == c.heap0[e]
        IN  (/\ c.exc.cls = "OperationalError"
             /\ c.flag0
             /\ c.pc \notin {"handle_operational"}
             /\ "stackTrace" \in DOMAIN raised
             /\ ~raised["stackTrace"].isStr) =>
                /\ heap[e]["stackTrace"] = raised["stackTrace"]
                /\ report.warnings =
                       Append(c.report0.warnings,
                              [key |-> "warning", message |-> message(e), info |-> e])
                /\ report.failures = c.report0.failures
                /\ Ended(c) => c.nFailure = 1 /\ c.failureArgs.info = heap[e]
                /\ c.pc = "raised" => c.escaped \in CallbackExceptions
C12_Witness ==
    /\ Cur.pc = "returned" /\ EmitRaisedOperational(Cur) /\ Cur.flag0
    /\ Cur.emitExc.id = "oe1"
    /\ Cur.heap0["oe1"] = MakeInfo({"stackTrace", "status"}, NonStr)
    /\ heap["oe1"] = Cur.heap0["oe1"]
    /\ Cur.nFailure = 1 /\ Warned(report) = 1

\* C13: once handle_work_unit_start has been given a MetadataWorkUnit, the
\* policy flag is that work unit's treat_errors_as_warnings, in every state
\* up to the next such call: through emissions and handle_work_unit_end.
C13_FlagLatched ==
    latched # "none" => treat_errors_as_warnings = (latched = "true")
C13_Witness ==
    /\ last.op = "handle_work_unit_end" /\ latched = "true"
    /\ treat_errors_as_warnings
    /\ Warned(report) = 1 /\ submitted = 2

\* C14: handle_work_unit_start with a work unit that is no MetadataWorkUnit
\* leaves the policy flag and the report as it found them.
C14_OtherWorkUnitNoOp ==
    (last.op = "handle_work_unit_start" /\ ~last.workunit.metadata) =>
        /\ treat_errors_as_warnings = last.flag0
        /\ report = last.report0
C14_Witness ==
    /\ last.op = "handle_work_unit_start" /\ ~last.workunit.metadata
    /\ last.flag0 /\ treat_errors_as_warnings
    /\ Counted(report) = 2

\* C15: handle_work_unit_end leaves the policy flag (it is not reset to
\* false), the report and the transport client as it found them and invokes
\* no callback.
C15_WorkUnitEndNoOp ==
    last.op = "handle_work_unit_end" =>
        /\ treat_errors_as_warnings = last.flag0
        /\ report = last.report0
        /\ closed = last.closed0
        /\ connection = "ok" /\ sink = "ready"
        /\ \A t \in Threads : call[t].nSuccess = 0 /\ call[t].nFailure = 0
C15_Witness ==
    /\ last.op = "handle_work_unit_end" /\ last.workunit.metadata
    /\ last.flag0 /\ treat_errors_as_warnings
    /\ Warned(report) = 1

\* C16: the work unit last started decides the routing of an operational
\* error: after a MetadataWorkUnit with the flag false the error is recorded
\* as a failure with its info as raised; after one with the flag true the
\* same error is recorded as a warning with its trace trimmed.
C16_WorkUnitDecidesRouting ==
    \A t \in Threads :
        LET c == call[t]
            e == c.emitExc.id
            raised == c.heap0[e]
        IN  (EmitRaisedOperational(c) /\ Handled(c) /\ latched # "none") =>
                IF latched = "false"
                THEN /\ report.failures = Append(c.report0.failures, ErrorEntry(e))
                     /\ report.warnings = c.report0.warnings
                     /\ heap[e] = raised
                ELSE /\ report.warnings = Append(c.report0.warnings, WarningEntry(e))
                     /\ report.failures = c.report0.failures
                     /\ ("stackTrace" \in DOMAIN raised /\ raised["stackTrace"].isStr) =>
                            heap[e]["stackTrace"] =
                                StrVal(FirstTwoLines(raised["stackTrace"].chars))
C16_Witness ==
    /\ Cur.pc = "returned" /\ Cur.emitExc = OpExc("oe2") /\ latched = "true"
    /\ submitted = 2
    /\ report.failures = <<ErrorEntry("oe2")>>
    /\ report.warnings = <<WarningEntry("oe2")>>
    /\ Cur.heap0["oe2"] = ScenarioInfo
    /\ heap["oe2"]["stackTrace"] = StrVal(<<"a", NL, "b">>)

\* C18: close changes neither the report nor the policy flag nor the sink,
\* and a second close changes nothing at all.
C18_CloseIdempotent ==
    last.op = "close" =>
        /\ report = last.report0
        /\ treat_errors_as_warnings = last.flag0
        /\ sink = "ready" /\ connection = "ok"
        /\ closed
        /\ \A t \in Threads : call[t].nSuccess = 0 /\ call[t].nFailure = 0
C18_Witness ==
    /\ last.op = "close" /\ last.closed0
    /\ treat_errors_as_warnings
    /\ Warned(report) = 1 /\ report.records_written = 1

\* C19: when test_connection() fails at construction no sink exists: no
\* record is submitted or emitted, no callback is invoked, no method runs.
C19_FailedConstruction ==
    connection = "failed" =>
        /\ sink = "failed"
        /\ submitted = 0
        /\ call = NoCalls
        /\ last = NoOp
        /\ report = NewReport
C19_Witness ==
    connection = "failed" /\ sink = "failed"

\* C17: in the three-record scenario under the flag true - one emit returns,
\* one raises an OperationalError whose stackTrace is the four lines a, b, c,
\* d, one raises a plain Exception - the run ends with one record written,
\* one warning and one failure, the warning's stackTrace being "a\nb".
ScenarioDone == ~script.free /\ script.left = {} /\ Quiet
C17_ScenarioEndState ==
    ScenarioDone =>
        /\ report.records_written = 1
        /\ Warned(report) = 1
        /\ Failed(report) = 1
        /\ heap[report.warnings[1].info]["stackTrace"] = StrVal(<<"a", NL, "b">>)

\* C20: with calls running concurrently no report update is lost: when all
\* of them have finished, records_written, the warnings and the failures
\* each count the calls that took that path.
Took(c, path) ==
    CASE path = "written" -> c.emitOut = "returned" /\ c.pc # "report_written"
      [] path = "warned"  -> /\ c.exc.cls = "OperationalError" /\ c.flagRead
                             /\ c.pc # "handle_operational"
      [] path = "failed"  -> \/ /\ c.exc.cls = "OperationalError" /\ ~c.flagRead
                                /\ c.pc # "handle_operational"
                             \/ c.exc.cls = "Exception" /\ c.pc # "handle_unexpected"
CallsThatTook(path) == Cardinality({t \in Threads : Took(call[t], path)})
FlagSetBeforeHandling(c) ==
    /\ last.op = "handle_work_unit_start"
    /\ last.report0 = c.report0
C21_RacingStartRouting ==
    \A t \in Threads :
        LET c == call[t]
            e == c.emitExc.id
        IN  (EmitRaisedOperational(c) /\ Handled(c)) =>
                /\ IF c.flagRead
                   THEN /\ report.warnings = Append(c.report0.warnings, WarningEntry(e))
                        /\ report.failures = c.report0.failures
                   ELSE /\ report.failures = Append(c.report0.failures, ErrorEntry(e))
                        /\ report.warnings = c.report0.warnings
                /\ report.records_written = c.report0.records_written
                /\ c.flagRead = IF FlagSetBeforeHandling(c)
                                THEN treat_errors_as_warnings
                                ELSE c.flag0
                /\ c.nSuccess = 0 /\ c.nFailure <= 1
                /\ Ended(c) => c.nFailure = 1
C21_Witness ==
    /\ Cur.pc = "returned" /\ EmitRaisedOperational(Cur)
    /\ ~Cur.flag0 /\ Cur.flagRead
    /\ last.op = "handle_work_unit_start"
    /\ Warned(report) = 1 /\ Failed(report) = 0

\* C22: each write_record_async call calls emit exactly once, with the
\* envelope's record: not again after emit raised, and never not at all.
C22_OneEmitPerCall ==
    \A t \in Threads :
        LET c == call[t] IN
        IF c.pc \in {"idle", "emit"} THEN c.emitted = <<>>
        ELSE c.emitted = <<c.record>>
C22_Witness ==
    /\ submitted = 2
    /\ Cur.pc = "returned" /\ EmitRaisedOperational(Cur)
    /\ Cur.emitted = <<Cur.record>>
    /\ Failed(Cur.report0) = 1

\* C23: write_record_async changes nothing but the report and invokes
\* nothing but the callback: the callbacks get the record as it was
\* submitted, and the objects reachable from the call's arguments and from
\* the exception are as they were when the call began.
C23_OnlyReportAndCallback ==
    \A t \in Threads :
        LET c == call[t] IN
        /\ c.nSuccess > 0 => c.successArgs.env = c.record
        /\ c.nFailure > 0 => c.failureArgs.env = c.record
        /\ c.pc # "idle" => heap = c.heap0

\* C24: in a run in which every emit returns, once the records are written
\* the report has no failure, no warning, and records_written equal to the
\* number of records submitted.
C24_AllSucceedCleanReport ==
    Quiet =>
        /\ Failed(report) = 0
        /\ Warned(report) = 0
        /\ report.records_written = submitted

\* C25: an operational error does not end the sink: once one is in the
\* report the sink still takes write_record_async calls, and a call made
\* after it updates the report by the same rules.
OperationalRecorded(rep) ==
    \/ \E i \in DOMAIN rep.failures : rep.failures[i].key = "error"
    \/ \E i \in DOMAIN rep.warnings : rep.warnings[i].key = "warning"
C25_RunGoesOn ==
    OperationalRecorded(report) =>
        /\ sink = "ready"
        /\ \A t \in Threads :
             LET c == call[t] IN
             OperationalRecorded(c.report0) =>
                /\ (c.emitOut = "returned" /\ c.pc # "report_written") =>
                       report.records_written = c.report0.records_written + 1
                /\ (EmitRaisedOperational(c) /\ Handled(c)) =>
                       IF treat_errors_as_warnings
                       THEN report.warnings =
                                Append(c.report0.warnings, WarningEntry(c.exc.id))
                       ELSE report.failures =
                                Append(c.report0.failures, ErrorEntry(c.exc.id))
                /\ (EmitRaisedOther(c) /\ Handled(c)) =>
                       report.failures = Append(c.report0.failures, RawEntry(c.exc))
                /\ Ended(c) => c.nSuccess + c.nFailure >= 1
C25_Witness ==
    /\ submitted = 2
    /\ Cur.report0.failures = <<ErrorEntry("oe2")>>
    /\ Cur.pc = "returned" /\ Cur.emitOut = "returned"
    /\ report.records_written = 1 /\ Cur.nSuccess = 1

\* C26: the except clause that takes an exception is chosen by the
\* exception's class alone: OperationalError goes to the operational clause
\* whatever its message and info, every other exception to the other clause,
\* and an OperationalError is never recorded as {"e": e}.
InOperationalClause(c) ==
    \/ c.pc \in {"handle_operational", "on_failure_operational"}
    \/ Ended(c) /\ c.failureArgs.infoRef # "none"
C26_ClassifiedByType ==
    \A t \in Threads :
        LET c == call[t] IN
        c.exc # NoExc =>
            /\ InOperationalClause(c) <=> c.exc.cls = "OperationalError"
            /\ (c.exc.cls = "OperationalError" /\ Handled(c)) =>
                   \A i \in DOMAIN report.failures :
                       i > Len(c.report0.failures) => report.failures[i].key # "e"
            /\ (c.exc.cls # "OperationalError" /\ Handled(c)) =>
                   /\ report.failures = Append(c.report0.failures, RawEntry(c.exc))
                   /\ report.warnings = c.report0.warnings
C26_Witness ==
    /\ report.failures = <<ErrorEntry("oe1"), ErrorEntry("oe2")>>
    /\ message("oe1") # message("oe2")
    /\ heap["oe1"] # heap["oe2"]
    /\ Cur.pc = "returned" /\ Cur.emitExc = OpExc("oe2")

\* C27: test_connection() is called once, by the constructor, and never
\* again; emit is only called on a sink whose test_connection() succeeded,
\* before and after close.
C27_CheckedOnceBeforeEmit ==
    /\ checks <= 1
    /\ checks = 1 <=> connection # "untested"
    /\ submitted > 0 => connection = "ok" /\ checks = 1
    /\ \A t \in Threads :
         call[t].pc # "idle" => connection = "ok" /\ checks = 1 /\ sink = "ready"
C27_Witness ==
    /\ submitted = 2 /\ closed
    /\ Cur.pc = "returned" /\ Cur.emitted # <<>>
    /\ checks = 1

\* C28: a write_record_async call that is in progress when close is called,
\* or that begins after close, ends by returning, having updated the report
\* and invoked one callback, as its emit ended.
C28_CallsCompleteAfterClose ==
    \A t \in Threads :
        LET c == call[t] IN
        (closed /\ Ended(c)) =>
            /\ c.escaped = NoExc
            /\ c.nSuccess + c.nFailure = 1
            /\ c.emitOut = "returned" =>
                   /\ c.nSuccess = 1
                   /\ report = report_record_written(c.report0)
            /\ c.emitOut = "raised" =>
                   /\ c.nFailure = 1
                   /\ report.records_written = c.report0.records_written
                   /\ Counted(report) = Counted(c.report0) + 1

\* C29: no step of any sink method makes records_written smaller or takes
\* an entry off the warnings or the failures, and get_report leaves the
\* report it returns as it found it.
IsPrefix(a, b) == Len(a) <= Len(b) /\ SubSeq(b, 1, Len(a)) = a
ReportGrows ==
    /\ report.records_written <= report'.records_written
    /\ IsPrefix(report.warnings, report'.warnings)
    /\ IsPrefix(report.failures, report'.failures)
C29_ReportOnlyGrows ==
    /\ [][ReportGrows]_vars
    /\ [](last.op = "get_report" => report = last.report0)
C29_Witness ==
    /\ last.op = "get_report"
    /\ report.records_written = 1 /\ Failed(report) = 1
    /\ closed

\* C30: on a sink on which no MetadataWorkUnit has been started the flag is
\* false, and an operational error is recorded as a failure, not a warning.
C30_DefaultIsFailure ==
    latched = "none" =>
        /\ ~treat_errors_as_warnings
        /\ Warned(report) = 0
        /\ \A t \in Threads :
             LET c == call[t] IN
             (c.exc.cls = "OperationalError" /\ Handled(c)) =>
                 report.failures = Append(c.report0.failures, ErrorEntry(c.exc.id))
C30_Witness ==
    /\ latched = "none" /\ last = NoOp
    /\ Cur.pc = "returned" /\ EmitRaisedOperational(Cur)
    /\ report.failures = <<ErrorEntry(Cur.emitExc.id)>>
    /\ Cur.nFailure = 1

\* C31: an entry that is in the report when a write_record_async call begins
\* shows the same info during and after the call as it did before it.
EntriesAsBefore(entries, before) ==
    \A i \in DOMAIN entries :
        entries[i].key \in {"error", "warning"} =>
            heap[entries[i].info] = before[entries[i].info]
C31_EntriesNeverChange ==
    \A t \in Threads :
        LET c == call[t] IN
        c.pc # "idle" =>
            /\ EntriesAsBefore(c.report0.failures, c.heap0)
            /\ EntriesAsBefore(c.report0.warnings, c.heap0)

\* C32: the info on_failure gets is the info of the report entry made for
\* the record: for an OperationalError the dict e.info itself, as raised
\* when recorded as a failure and redacted when recorded as a warning; for
\* any other exception on_failure gets {} and the entry holds the exception.
LastOf(entries) == entries[Len(entries)]
C32_CallbackInfoIsEntryInfo ==
    \A t \in Threads :
        LET c == call[t]
            e == c.exc.id
        IN  c.nFailure = 1 =>
                IF c.exc.cls = "OperationalError"
                THEN LET entry == IF c.flagRead THEN LastOf(report.warnings)
                                  ELSE LastOf(report.failures)
                     IN  /\ entry = IF c.flagRead THEN WarningEntry(e) ELSE ErrorEntry(e)
                         /\ c.failureArgs.infoRef = entry.info
                         /\ c.failureArgs.info = heap[entry.info]
                         /\ c.failureArgs.info =
                                IF c.flagRead THEN Redact(c.heap0[e], c.record)
                                ELSE c.heap0[e]
                ELSE /\ c.failureArgs.info = EmptyMap
                     /\ LastOf(report.failures) = RawEntry(c.exc)
C32_Witness ==
    /\ Cur.pc = "returned" /\ Cur.nFailure = 1
    /\ Cur.emitExc = OpExc("oe2") /\ Cur.flagRead
    /\ IsWrapper(Cur.record)
    /\ Cur.failureArgs.info = Put(MakeInfo({"stackTrace"}, StrVal(<<"a", NL, "b">>)),
                                  "id", "urn:a")
    /\ LastOf(report.warnings).info = "oe2"

\* C33: only handle_work_unit_start with a MetadataWorkUnit changes the
\* policy flag: no step of write_record_async, handle_work_unit_end,
\* get_report or close does.
FlagChangedByStart ==
    treat_errors_as_warnings' # treat_errors_as_warnings =>
        /\ last'.op = "handle_work_unit_start"
        /\ last'.workunit.metadata
        /\ treat_errors_as_warnings' = last'.workunit.treat_errors_as_warnings
C33_OnlyStartChangesFlag == [][FlagChangedByStart]_vars
C33_Witness ==
    /\ treat_errors_as_warnings /\ closed
    /\ last.op = "get_report"
    /\ report.records_written = 1 /\ Warned(report) = 1

\* C34: a write_record_async call whose emit has returned or raised goes on
\* to end, by returning or by raising, and has then invoked a callback for
\* its record.
C34_CallsTerminate ==
    \A t \in Threads :
        (call[t].emitOut # "none")
            ~> (Ended(call[t]) /\ call[t].nSuccess + call[t].nFailure >= 1)
C34_Witness ==
    /\ Cur.pc = "returned" /\ EmitRaisedOther(Cur)
    /\ Cur.nFailure = 1 /\ Cur.nSuccess = 0
    /\ submitted = 2

\* C35: what a call adds to records_written, to the warnings and to the
\* failures, and which callback it invokes, is decided by the class of its
\* emit outcome and by the flag, and by nothing else: not by the record
\* variant, the message or the info, nor by what the callback does.
OutcomeClass(c) ==
    IF c.emitOut = "returned" THEN "success" ELSE Classify(c.emitExc)
Count(b) == IF b THEN 1 ELSE 0
C35_OutcomeByClassAndFlag ==
    \A t \in Threads :
        LET c == call[t]
            class == OutcomeClass(c)
        IN  Ended(c) =>
                /\ report.records_written - c.report0.records_written =
                       Count(class = "success")
                /\ Warned(report) - Warned(c.report0) =
                       Count(class = "operational" /\ c.flag0)
                /\ Failed(report) - Failed(c.report0) =
                       Count(class = "unexpected" \/ (class = "operational" /\ ~c.flag0))
                /\ c.nSuccess = Count(class = "success")
                /\ c.nFailure = Count(class # "success")

\* C36: trimming a trimmed trace gives it back unchanged; the trimmed trace
\* is a prefix of the trace and never longer; a trace without a newline,
\* the empty one included, is given back unchanged.
HasNewline(chars) == \E i \in 1..Len(chars) : chars[i] = NL
C36_TrimIdempotentPrefix ==
    LET v == orig["oe1"]["stackTrace"]
        w == TrimStackTrace(v)
        now == heap["oe1"]["stackTrace"]
    IN  /\ TrimStackTrace(w) = w
        /\ IsPrefix(w.chars, v.chars)
        /\ Len(w.chars) <= Len(v.chars)
        /\ (v.isStr /\ ~HasNewline(v.chars)) => w = v
        /\ now \in {v, w}
        /\ (submitted > 0 /\ Handled(Cur)) => now = w
C36_Witness ==
    /\ orig["oe1"]["stackTrace"] = StrVal(<<"a", NL, "b", NL>>)
    /\ submitted = 2 /\ Cur.pc = "returned"
    /\ Cur.heap0["oe1"]["stackTrace"] = StrVal(<<"a", NL, "b">>)
    /\ heap["oe1"]["stackTrace"] = StrVal(<<"a", NL, "b">>)

====
